---- MODULE Spec2Model ----
(***************************************************************************)
(* Development-flow server (DevelopmentFlowServer, src/unnamed/part_003)   *)
(* over its project store (StateManager, src/src/server/StateManager.ts).  *)
(*                                                                         *)
(* Eight specifications share the state:                                   *)
(*   Spec       the phase tool calls of one server process;                *)
(*   SpecFault  the same calls on a filesystem whose writes may fail;      *)
(*   SpecStore  the public StateManager interface used directly, with      *)
(*              process restarts and files removed or damaged out of band; *)
(*   SpecBackup a long run of saves, for the retention of backups;         *)
(*   SpecBackupFault saves whose backup or backup cleanup may fail;        *)
(*   SpecStatus status calls over the task lists a project can hold;       *)
(*   SpecRecover saves, deletes and restores of the StateManager in a row; *)
(*   SpecFlow   the tool calls of the step-by-step server of src/index.ts. *)
(*                                                                         *)
(* Texts are sequences of one-character strings.  An optional value is the *)
(* empty sequence (undefined) or a one-element sequence.  Timestamps are   *)
(* the integer clock `now` (ISO strings in the source, same order).        *)
(* Of the four requirement arrays and six design texts of ProjectState,    *)
(* which the handlers treat by the same code, two of each are carried.     *)
(***************************************************************************)
EXTENDS Integers, Sequences, FiniteSets, TLC

VARIABLES
    currentProject,   \* DevelopmentFlowServer.currentProject: optional ProjectState
    projectsIndex,    \* StateManager.projectsIndex: ids held in memory
    initialized,      \* StateManager.initialized
    initRead,         \* startup load: what loadProjectsIndex has read, not yet assigned
    files,            \* states/<id>.json: id -> file content
    indexFile,        \* states/projects.json: optional set of ids
    backups,          \* states/backups/<id>_<timestamp>.json
    backupDir,        \* whether the directory states/backups exists
    flow,             \* the step-by-step tool server (src/src/index.ts) and its .dev directory
    docs,             \* documents written by the DocumentGenerator
    now,              \* the clock, in milliseconds
    config,           \* DevelopmentFlowConfig (autoBackup) and the filesystem's reliability
    last              \* the last call and what it returned

vars == <<currentProject, projectsIndex, initialized, initRead, files, indexFile,
          backups, backupDir, flow, docs, now, config, last>>

-----------------------------------------------------------------------------
(* Bounds of the model *)

MaxCalls == 4
MaxProjects == 2
MaxStoreCalls == 4
MaxStoreClock == 1
MaxBackupSaves == 14
MaxStatusTasks == 3
MaxFaultySaves == 3
MaxFlowCalls == 5
MaxFlowTasks == 2
MaxFlowMinute == 1
MaxRecoverCalls == 5

(* Program constants *)

BackupRetention == 10
MaxProjectNameLength == 100
MaxTaskIdLength == 50
MaxItemLength == 500
MaxDescriptionLength == 2000
MaxArrayItems == 50

-----------------------------------------------------------------------------
(* Optional values *)

None == <<>>
Some(v) == <<v>>
IsNone(o) == Len(o) = 0
IsSome(o) == Len(o) = 1
Get(o) == o[1]

(* Texts *)

Rep(c, n) == [i \in 1..n |-> c]

Whitespace == {" ", "\t", "\n", "\r"}
Lower == {"a","b","c","d","e","f","g","h","i","j","k","l","m",
          "n","o","p","q","r","s","t","u","v","w","x","y","z"}
Upper == {"A","B","C","D","E","F","G","H","I","J","K","L","M",
          "N","O","P","Q","R","S","T","U","V","W","X","Y","Z"}
Digit == {"0","1","2","3","4","5","6","7","8","9"}

RECURSIVE TrimStart(_)
TrimStart(t) ==
    IF Len(t) > 0 /\ t[1] \in Whitespace THEN TrimStart(Tail(t)) ELSE t

RECURSIVE TrimEnd(_)
TrimEnd(t) ==
    IF Len(t) > 0 /\ t[Len(t)] \in Whitespace
    THEN TrimEnd(SubSeq(t, 1, Len(t) - 1))
    ELSE t

Trim(t) == TrimEnd(TrimStart(t))

Slice(t, n) == IF Len(t) > n THEN SubSeq(t, 1, n) ELSE t

Entity(c) ==
    CASE c = "<" -> <<"&","l","t",";">>
      [] c = ">" -> <<"&","g","t",";">>
      [] c = "\"" -> <<"&","q","u","o","t",";">>
      [] c = "'" -> <<"&","#","x","2","7",";">>
      [] c = "&" -> <<"&","a","m","p",";">>
      [] OTHER -> <<c>>

RECURSIVE Escape(_)
Escape(t) == IF Len(t) = 0 THEN <<>> ELSE Entity(t[1]) \o Escape(Tail(t))

SanitizeText(text, maxLength) == Escape(Slice(Trim(text), maxLength))

AllIn(t, S) == \A i \in 1..Len(t) : t[i] \in S

(* InputValidator: each returns the sequence of error messages *)

\* mutant: the length of the name is not checked
ValidateProjectNameUnbounded(name) ==
    IF Len(name) = 0
    THEN <<"Project name is required">>
    ELSE LET trimmed == Trim(name)
         IN (IF Len(trimmed) = 0 THEN <<"Project name cannot be empty">> ELSE <<>>)
            \o (IF ~(Len(trimmed) > 0
                     /\ AllIn(trimmed, Lower \cup Upper \cup Digit \cup Whitespace \cup {"-", "_"}))
                THEN <<"Project name has invalid characters">> ELSE <<>>)

ValidateProjectName(name) ==
    IF Len(name) = 0
    THEN <<"Project name is required">>
    ELSE LET trimmed == Trim(name)
         IN (IF Len(trimmed) = 0 THEN <<"Project name cannot be empty">> ELSE <<>>)
            \o (IF Len(trimmed) > MaxProjectNameLength
                THEN <<"Project name cannot exceed 100 characters">> ELSE <<>>)
            \o (IF ~(Len(trimmed) > 0
                     /\ AllIn(trimmed, Lower \cup Upper \cup Digit \cup Whitespace \cup {"-", "_"}))
                THEN <<"Project name has invalid characters">> ELSE <<>>)

RECURSIVE ItemErrors(_)
ItemErrors(arr) ==
    IF Len(arr) = 0 THEN <<>>
    ELSE (IF Len(Trim(arr[1])) = 0 THEN <<"item cannot be empty">> ELSE <<>>)
         \o ItemErrors(Tail(arr))

ValidateStringArray(arr) ==
    (IF Len(arr) > MaxArrayItems THEN <<"too many items">> ELSE <<>>) \o ItemErrors(arr)

ValidateTaskId(taskId) ==
    IF Len(taskId) = 0
    THEN <<"Task ID is required">>
    ELSE (IF ~AllIn(taskId, Lower \cup Upper \cup Digit \cup {"-", "_"})
          THEN <<"Task ID has invalid characters">> ELSE <<>>)
         \o (IF Len(taskId) > MaxTaskIdLength
             THEN <<"Task ID cannot exceed 50 characters">> ELSE <<>>)

MapSanitize(arr, maxLength) == [i \in 1..Len(arr) |-> SanitizeText(arr[i], maxLength)]

-----------------------------------------------------------------------------
(* ProjectState and its JSON form *)

Phases == <<"init", "requirement", "confirmation", "design", "todo",
            "task_complete", "finish">>

RequiredFields == {"id", "name", "phase", "createdAt", "updatedAt"}
OptionalFields == {"description", "requirements", "functionalRequirements",
                   "architecture", "implementation", "tasks", "completedTasks"}

NewProjectState(id, name, t) ==
    [id |-> id, name |-> name, phase |-> "init", createdAt |-> t, updatedAt |-> t,
     description |-> None, requirements |-> None, functionalRequirements |-> None,
     architecture |-> None, implementation |-> None, tasks |-> None,
     completedTasks |-> None]

\* JSON.stringify: a member whose value is undefined is left out
JsonStringify(p) ==
    [k \in RequiredFields \cup {f \in OptionalFields : IsSome(p[f])} |->
        IF k \in OptionalFields THEN Get(p[k]) ELSE p[k]]

\* JSON.parse: a member that is absent reads as undefined
JsonParse(doc) ==
    [k \in RequiredFields \cup OptionalFields |->
        IF k \in OptionalFields
        THEN (IF k \in DOMAIN doc THEN Some(doc[k]) ELSE None)
        ELSE doc[k]]

Corrupt == [ok |-> FALSE]
JsonFile(p) == [ok |-> TRUE, doc |-> JsonStringify(p)]

\* readJsonFile: null when the file is missing or does not parse
ReadJsonFile(fs, id) ==
    IF id \in DOMAIN fs /\ fs[id].ok THEN Some(JsonParse(fs[id].doc)) ELSE None

WriteFile(fs, id, content) == (id :> content) @@ fs
Unlink(fs, id) == [x \in DOMAIN fs \ {id} |-> fs[x]]

-----------------------------------------------------------------------------
(* StateManager.  A store value s gathers the manager's fields and the     *)
(* directory it works on; an operation that can end in more than one way   *)
(* (the order of equal modification times is the directory's) yields the   *)
(* set of its outcomes.                                                    *)

Store ==
    [files |-> files, projectsIndex |-> projectsIndex, indexFile |-> indexFile,
     backups |-> backups, backupDir |-> backupDir, initialized |-> initialized, initRead |-> initRead,
     autoBackup |-> config.autoBackup]

\* loadProjectsIndex reads projects.json; a missing file leaves the index as it is
InitializeRead(s) == [s EXCEPT !.initRead = Some(s.indexFile)]

InitializeDone(s) ==
    [s EXCEPT !.projectsIndex = IF IsSome(Get(s.initRead)) THEN Get(Get(s.initRead)) ELSE @,
              !.initialized = TRUE,
              !.initRead = None]

\* await this.initPromise: the startup load runs to its end
EnsureInitialized(s) ==
    IF s.initialized THEN s
    ELSE IF IsNone(s.initRead) THEN InitializeDone(InitializeRead(s))
    ELSE InitializeDone(s)

SaveProjectsIndex(s) == [s EXCEPT !.indexFile = Some(s.projectsIndex)]

ProjectExists(s, id) ==
    IF id \notin s.projectsIndex THEN [s |-> s, res |-> FALSE]
    ELSE IF id \in DOMAIN s.files THEN [s |-> s, res |-> TRUE]
    ELSE [s |-> SaveProjectsIndex([s EXCEPT !.projectsIndex = @ \ {id}]), res |-> FALSE]

\* cleanup: the entries whose file cannot be accessed are dropped; the index is
\* saved only when one was
Cleanup(s) ==
    LET toRemove == {id \in s.projectsIndex : id \notin DOMAIN s.files}
    IN  IF toRemove = {} THEN s
        ELSE SaveProjectsIndex([s EXCEPT !.projectsIndex = @ \ toRemove])

\* file.startsWith(`${projectId}_`): ids are sequences of tokens joined by "_",
\* and a backup is named by the tokens of its id followed by its timestamp
IsPrefix(a, b) == Len(a) <= Len(b) /\ \A i \in 1..Len(a) : a[i] = b[i]
MatchesBackupFilter(projectId, b) == IsPrefix(projectId, b.id)

\* sort by mtime descending, slice(10): what is kept is no older than what goes
KeepChoices(mine) ==
    {K \in SUBSET mine :
        /\ Cardinality(K) = BackupRetention
        /\ \A k \in K : \A d \in mine \ K : k.mtime >= d.mtime}

CleanupOldBackups(s, projectId, fault) ==
    LET mine == {b \in s.backups : MatchesBackupFilter(projectId, b)}
    IN  IF Cardinality(mine) <= BackupRetention \/ fault = "cleanup"
        THEN {s}
        ELSE {[s EXCEPT !.backups = (@ \ mine) \cup K] : K \in KeepChoices(mine)}

\* the backup holds the bytes of the project file; a failure is logged and swallowed
CreateBackup(s, projectId, t, fault) ==
    IF projectId \notin s.projectsIndex THEN {s}
    ELSE IF fault = "backup" \/ projectId \notin DOMAIN s.files
    THEN {[s EXCEPT !.backupDir = TRUE]}
    ELSE LET b == [id |-> projectId, ts |-> t, mtime |-> t,
                   content |-> s.files[projectId]]
             written == {x \in s.backups : ~(x.id = projectId /\ x.ts = t)} \cup {b}
         IN  CleanupOldBackups([s EXCEPT !.backups = written, !.backupDir = TRUE],
                               projectId, fault)

\* mutant: the index is updated although the project file was not written
WriteProjectIndexOnly(s, project, fault) ==
    IF fault = "write" THEN [s |-> s, ok |-> FALSE]
    ELSE LET s2 == [s EXCEPT !.projectsIndex = @ \cup {project.id}]
         IN  IF fault = "index" THEN [s |-> s2, ok |-> FALSE]
             ELSE [s |-> SaveProjectsIndex(s2), ok |-> TRUE]

WriteProject(s, project, fault) ==
    IF fault = "write" THEN [s |-> s, ok |-> FALSE]
    ELSE LET s2 == [s EXCEPT !.files = WriteFile(@, project.id, JsonFile(project)),
                             !.projectsIndex = @ \cup {project.id}]
         IN  IF fault = "index" THEN [s |-> s2, ok |-> FALSE]
             ELSE [s |-> SaveProjectsIndex(s2), ok |-> TRUE]

\* mutant: the save stamps updatedAt itself
SaveProjectStateRefreshing(s, project, t, fault) ==
    LET s0 == EnsureInitialized(s)
        ex == IF s0.autoBackup THEN ProjectExists(s0, project.id)
              ELSE [s |-> s0, res |-> FALSE]
        backedUp == IF ex.res THEN CreateBackup(ex.s, project.id, t, fault) ELSE {ex.s}
    IN  {WriteProject(s1, [project EXCEPT !.updatedAt = t], fault) : s1 \in backedUp}

\* mutant: a backup that fails aborts the save
SaveProjectStateAbortingOnBackup(s, project, t, fault) ==
    LET s0 == EnsureInitialized(s)
        ex == IF s0.autoBackup THEN ProjectExists(s0, project.id)
              ELSE [s |-> s0, res |-> FALSE]
        backedUp == IF ex.res THEN CreateBackup(ex.s, project.id, t, fault) ELSE {ex.s}
    IN  {IF ex.res /\ fault \in {"backup", "cleanup"}
         THEN [s |-> s1, ok |-> FALSE]
         ELSE WriteProject(s1, project, fault) : s1 \in backedUp}

SaveProjectState(s, project, t, fault) ==
    LET s0 == EnsureInitialized(s)
        ex == IF s0.autoBackup THEN ProjectExists(s0, project.id)
              ELSE [s |-> s0, res |-> FALSE]
        backedUp == IF ex.res THEN CreateBackup(ex.s, project.id, t, fault) ELSE {ex.s}
    IN  {WriteProject(s1, project, fault) : s1 \in backedUp}

\* mutant: a load that finds no readable file drops the index entry and saves the index
LoadProjectStateRepairing(s, projectId) ==
    LET s0 == EnsureInitialized(s)
        res == IF projectId \in s0.projectsIndex
               THEN ReadJsonFile(s0.files, projectId) ELSE None
    IN  [s |-> IF projectId \in s0.projectsIndex /\ IsNone(res)
               THEN SaveProjectsIndex([s0 EXCEPT !.projectsIndex = @ \ {projectId}])
               ELSE s0,
         res |-> res]

LoadProjectState(s, projectId) ==
    LET s0 == EnsureInitialized(s)
    IN  [s |-> s0,
         res |-> IF projectId \in s0.projectsIndex
                 THEN ReadJsonFile(s0.files, projectId) ELSE None]

\* the entries whose file does not read are dropped, the index is saved, and the
\* records are returned most recently updated first
RECURSIVE SortByUpdatedAt(_)
SortByUpdatedAt(S) ==
    IF S = {} THEN <<>>
    ELSE LET p == CHOOSE x \in S : \A y \in S : x.updatedAt >= y.updatedAt
         IN  <<p>> \o SortByUpdatedAt(S \ {p})

GetAllProjects(s) ==
    LET readable == {id \in s.projectsIndex : IsSome(ReadJsonFile(s.files, id))}
    IN  [s |-> SaveProjectsIndex([s EXCEPT !.projectsIndex = readable]),
         res |-> SortByUpdatedAt({Get(ReadJsonFile(s.files, id)) : id \in readable})]

\* deleteProjectState: an id the index does not hold gives false; the backup, the
\* unlink (which throws when the file is already gone), then the index
DeleteProjectState(s, projectId, t, fault) ==
    IF projectId \notin s.projectsIndex
    THEN {[s |-> s, code |-> "OK", res |-> FALSE]}
    ELSE {IF projectId \notin DOMAIN s1.files \/ fault = "unlink"
          THEN [s |-> s1, code |-> "DELETE_STATE_ERROR", res |-> FALSE]
          ELSE LET s2 == [s1 EXCEPT !.files = Unlink(@, projectId),
                                    !.projectsIndex = @ \ {projectId}]
               IN  IF fault = "index"
                   THEN [s |-> s2, code |-> "DELETE_STATE_ERROR", res |-> FALSE]
                   ELSE [s |-> SaveProjectsIndex(s2), code |-> "OK", res |-> TRUE]
          : s1 \in (IF s.autoBackup THEN CreateBackup(s, projectId, t, fault) ELSE {s})}

\* .sort().reverse() orders the names as strings: a timestamp begins with a digit
\* and the tokens of the ids modelled are letters, so among the names the filter
\* lets through those of the longer id come last, and names of one id go by time
BackupNameLess(a, b) ==
    \/ Len(a.id) < Len(b.id)
    \/ Len(a.id) = Len(b.id) /\ a.ts < b.ts

\* mutant: no backup or an unreadable backup is raised as an error
RestoreProjectStateThrowing(s, projectId, backupTimestamp, t, fault) ==
    LET mine == {b \in s.backups : MatchesBackupFilter(projectId, b)}
        chosen == IF IsSome(backupTimestamp)
                  THEN {b \in s.backups : b.id = projectId /\ b.ts = Get(backupTimestamp)}
                  ELSE {b \in mine : \A c \in mine : c = b \/ BackupNameLess(c, b)}
    IN  IF ~s.backupDir \/ chosen = {} \/ \E b \in chosen : ~b.content.ok
        THEN {[s |-> s, code |-> "RESTORE_STATE_ERROR", res |-> None]}
        ELSE LET project == JsonParse((CHOOSE b \in chosen : TRUE).content.doc)
             IN  {[s |-> sv.s,
                   code |-> IF sv.ok THEN "OK" ELSE "RESTORE_STATE_ERROR",
                   res |-> IF sv.ok THEN Some(project) ELSE None] :
                  sv \in SaveProjectState(s, project, t, fault)}

\* restoreProjectState: readdir fails when states/backups was never made; no
\* backup or an unreadable one gives null; the backup read is saved as a record
RestoreProjectState(s, projectId, backupTimestamp, t, fault) ==
    LET mine == {b \in s.backups : MatchesBackupFilter(projectId, b)}
        chosen == IF IsSome(backupTimestamp)
                  THEN {b \in s.backups : b.id = projectId /\ b.ts = Get(backupTimestamp)}
                  ELSE {b \in mine : \A c \in mine : c = b \/ BackupNameLess(c, b)}
    IN  IF ~s.backupDir
        THEN {[s |-> s, code |-> "RESTORE_STATE_ERROR", res |-> None]}
        ELSE IF chosen = {} \/ \E b \in chosen : ~b.content.ok
        THEN {[s |-> s, code |-> "OK", res |-> None]}
        ELSE LET project == JsonParse((CHOOSE b \in chosen : TRUE).content.doc)
             IN  {[s |-> sv.s,
                   code |-> IF sv.ok THEN "OK" ELSE "RESTORE_STATE_ERROR",
                   res |-> IF sv.ok THEN Some(project) ELSE None] :
                  sv \in SaveProjectState(s, project, t, fault)}

-----------------------------------------------------------------------------
(* DevelopmentFlowServer.  A handler takes the active project cur, the     *)
(* store s, the documents written so far, the call's input, the time and   *)
(* the fault the filesystem shows during the call, and yields the set of   *)
(* its outcomes: the fields afterwards, the error code ("OK" for a         *)
(* success result), the record the result reports and the result's data.   *)
(* The handlers assign to the fields of this.currentProject in place, so   *)
(* what they assigned before throwing stays in the active project.         *)

NoInput ==
    [action |-> "", projectName |-> None, description |-> None, requirements |-> None,
     functionalRequirements |-> None, confirmed |-> None, architecture |-> None,
     implementation |-> None, tasks |-> None, taskId |-> None, force |-> None]

\* JavaScript truthiness of an optional string and of an optional boolean
TruthyText(o) == IsSome(o) /\ Len(Get(o)) > 0
TruthyBool(o) == IsSome(o) /\ Get(o)

Outcome(cur, s, dcs, code, rec, data) ==
    [cur |-> cur, s |-> s, docs |-> dcs, code |-> code, rec |-> rec, data |-> data]

\* generateProjectId: proj_<Date.now()>_<six random base-36 digits>; the random
\* part is taken not to repeat among the ids made in one millisecond
Suffixes == <<"a", "b", "c", "d">>
\* mutant: the id is made once and does not follow the clock
GenerateProjectIdOnce(t, used) == <<"proj", "0", Suffixes[1]>>

GenerateProjectId(t, used) ==
    LET free == {i \in 1..Len(Suffixes) : <<"proj", ToString(t), Suffixes[i]>> \notin used}
        i == CHOOSE x \in free : \A y \in free : x <= y
    IN  <<"proj", ToString(t), Suffixes[i]>>

UsedIds(s) == DOMAIN s.files \cup s.projectsIndex \cup {b.id : b \in s.backups}

\* the document generator renders the template from the record and writes the file:
\* <<id, template>> says that the file exists, <<id, template, updatedAt>> which
\* version of the record it was rendered from
WriteDocument(dcs, p, template) ==
    {d \in dcs : ~(Len(d) = 3 /\ d[1] = p.id /\ d[2] = template)}
        \cup {<<p.id, template>>, <<p.id, template, p.updatedAt>>}

\* mutant: the active project is cleared before the document is generated
SaveAndEmitClearingEarly(p, s, dcs, t, fault, template, clear) ==
    {IF ~sv.ok
     THEN Outcome(Some(p), sv.s, dcs, "SAVE_STATE_ERROR", None, None)
     ELSE IF template # "" /\ fault = "doc"
     THEN Outcome(IF clear THEN None ELSE Some(p), sv.s, dcs, "EXECUTION_ERROR", None, None)
     ELSE Outcome(IF clear THEN None ELSE Some(p), sv.s,
                  IF template # "" THEN WriteDocument(dcs, p, template) ELSE dcs,
                  "OK", Some(p), None)
     : sv \in SaveProjectState(s, p, t, fault)}

\* the save at the end of a handler, then the document it emits (template "" for
\* a handler that emits none); done(p) is the active project after success
SaveAndEmit(p, s, dcs, t, fault, template, clear) ==
    {IF ~sv.ok
     THEN Outcome(Some(p), sv.s, dcs, "SAVE_STATE_ERROR", None, None)
     ELSE IF template # "" /\ fault = "doc"
     THEN Outcome(Some(p), sv.s, dcs, "EXECUTION_ERROR", None, None)
     ELSE Outcome(IF clear THEN None ELSE Some(p), sv.s,
                  IF template # "" THEN WriteDocument(dcs, p, template) ELSE dcs,
                  "OK", Some(p), None)
     : sv \in SaveProjectState(s, p, t, fault)}

HandleInit(cur, s, dcs, input, t, fault) ==
    LET name == IF IsSome(input.projectName) THEN Get(input.projectName) ELSE <<>>
        projectState == NewProjectState(GenerateProjectId(t, UsedIds(s)),
                                        SanitizeText(name, MaxProjectNameLength), t)
    IN  IF Len(ValidateProjectName(name)) > 0
        THEN {Outcome(cur, s, dcs, "VALIDATION_ERROR", None, None)}
        ELSE {IF sv.ok
              THEN Outcome(Some(projectState), sv.s, dcs, "OK", Some(projectState), None)
              ELSE Outcome(cur, sv.s, dcs, "SAVE_STATE_ERROR", None, None)
              : sv \in SaveProjectState(EnsureInitialized(s), projectState, t, fault)}

\* the assignments of handleRequirement and the errors it has collected
ApplyRequirement(p, input) ==
    LET p1 == IF TruthyText(input.description)
              THEN [p EXCEPT !.description =
                        Some(SanitizeText(Get(input.description), MaxDescriptionLength))]
              ELSE p
        reqErrors == IF IsSome(input.requirements)
                     THEN ValidateStringArray(Get(input.requirements)) ELSE <<>>
        p2 == IF IsSome(input.requirements) /\ Len(reqErrors) = 0
              THEN [p1 EXCEPT !.requirements =
                        Some(MapSanitize(Get(input.requirements), MaxItemLength))]
              ELSE p1
        funcErrors == IF IsSome(input.functionalRequirements)
                      THEN ValidateStringArray(Get(input.functionalRequirements)) ELSE <<>>
        p3 == IF IsSome(input.functionalRequirements) /\ Len(funcErrors) = 0
              THEN [p2 EXCEPT !.functionalRequirements =
                        Some(MapSanitize(Get(input.functionalRequirements), MaxItemLength))]
              ELSE p2
    IN  [p |-> p3, errors |-> reqErrors \o funcErrors]

HandleRequirement(cur, s, dcs, input, t, fault) ==
    IF IsNone(cur) THEN {Outcome(cur, s, dcs, "NO_CURRENT_PROJECT", None, None)}
    ELSE LET a == ApplyRequirement(Get(cur), input)
         IN  IF Len(a.errors) > 0
             THEN {Outcome(Some(a.p), s, dcs, "VALIDATION_ERROR", None, None)}
             ELSE SaveAndEmit([a.p EXCEPT !.phase = "requirement", !.updatedAt = t],
                              s, dcs, t, fault, "requirement", FALSE)

\* mutant: a declined confirmation is stamped and saved like an accepted one
HandleConfirmationSavingDecline(cur, s, dcs, input, t, fault) ==
    IF IsNone(cur) THEN {Outcome(cur, s, dcs, "NO_CURRENT_PROJECT", None, None)}
    ELSE IF IsNone(input.confirmed)
    THEN {Outcome(cur, s, dcs, "MISSING_CONFIRMATION", None, None)}
    ELSE SaveAndEmit([Get(cur) EXCEPT !.phase = IF Get(input.confirmed)
                                                THEN "confirmation" ELSE @,
                                      !.updatedAt = t],
                     s, dcs, t, fault, "", FALSE)

HandleConfirmation(cur, s, dcs, input, t, fault) ==
    IF IsNone(cur) THEN {Outcome(cur, s, dcs, "NO_CURRENT_PROJECT", None, None)}
    ELSE IF IsNone(input.confirmed)
    THEN {Outcome(cur, s, dcs, "MISSING_CONFIRMATION", None, None)}
    ELSE IF ~Get(input.confirmed)
    THEN {Outcome(cur, s, dcs, "OK", cur, None)}
    ELSE SaveAndEmit([Get(cur) EXCEPT !.phase = "confirmation", !.updatedAt = t],
                     s, dcs, t, fault, "", FALSE)

ApplyDesign(p, input, t) ==
    [p EXCEPT !.phase = "design",
              !.updatedAt = t,
              !.architecture = IF TruthyText(input.architecture)
                               THEN input.architecture ELSE @,
              !.implementation = IF TruthyText(input.implementation)
                                 THEN input.implementation ELSE @]

HandleDesign(cur, s, dcs, input, t, fault) ==
    IF IsNone(cur) THEN {Outcome(cur, s, dcs, "NO_CURRENT_PROJECT", None, None)}
    ELSE SaveAndEmit(ApplyDesign(Get(cur), input, t), s, dcs, t, fault, "design", FALSE)

\* mutant: the tasks given are added to the list there is
ApplyTodoMerging(p, input, t) ==
    [p EXCEPT !.phase = "todo",
              !.updatedAt = t,
              !.tasks = IF IsSome(input.tasks) THEN Some((IF IsSome(p.tasks) THEN Get(p.tasks) ELSE <<>>) \o Get(input.tasks)) ELSE @]

ApplyTodo(p, input, t) ==
    [p EXCEPT !.phase = "todo",
              !.updatedAt = t,
              !.tasks = IF IsSome(input.tasks) THEN input.tasks ELSE @]

HandleTodo(cur, s, dcs, input, t, fault) ==
    IF IsNone(cur) THEN {Outcome(cur, s, dcs, "NO_CURRENT_PROJECT", None, None)}
    ELSE SaveAndEmit(ApplyTodo(Get(cur), input, t), s, dcs, t, fault, "todo", FALSE)

Includes(arr, x) == \E i \in 1..Len(arr) : arr[i] = x

TasksOf(p) == IF IsSome(p.tasks) THEN Get(p.tasks) ELSE <<>>
CompletedOf(p) == IF IsSome(p.completedTasks) THEN Get(p.completedTasks) ELSE <<>>

\* tasks.filter(task => !completedTaskIds.includes(task.id))
PendingTasks(p) == SelectSeq(TasksOf(p), LAMBDA task : ~Includes(CompletedOf(p), task.id))
DoneTasks(p) == SelectSeq(TasksOf(p), LAMBDA task : Includes(CompletedOf(p), task.id))

\* mutant: the percentage is truncated instead of rounded
CompletionRateTruncating(completed, total) ==
    IF total > 0 THEN (100 * completed) \div total ELSE 0

\* Math.round(completed / total * 100), halves rounded up
CompletionRate(completed, total) ==
    IF total > 0 THEN (200 * completed + total) \div (2 * total) ELSE 0

\* mutant: the guidance compares the number of completions with the number of tasks
StatusInfoCounting(p) ==
    [currentPhase |-> p.phase,
     totalTasks |-> Len(TasksOf(p)),
     completedTasksCount |-> Len(DoneTasks(p)),
     pendingTasksCount |-> Len(PendingTasks(p)),
     completionRate |-> CompletionRate(Len(DoneTasks(p)), Len(TasksOf(p))),
     pendingTasks |-> PendingTasks(p),
     completedTasks |-> DoneTasks(p),
     nextSteps |-> IF Len(CompletedOf(p)) < Len(TasksOf(p)) THEN "task_complete" ELSE "finish"]

StatusInfo(p) ==
    [currentPhase |-> p.phase,
     totalTasks |-> Len(TasksOf(p)),
     completedTasksCount |-> Len(DoneTasks(p)),
     pendingTasksCount |-> Len(PendingTasks(p)),
     completionRate |-> CompletionRate(Len(DoneTasks(p)), Len(TasksOf(p))),
     pendingTasks |-> PendingTasks(p),
     completedTasks |-> DoneTasks(p),
     nextSteps |-> IF Len(PendingTasks(p)) > 0 THEN "task_complete" ELSE "finish"]

\* mutant: status answers without an active project
HandleStatusUnguarded(cur, s, dcs, input, t, fault) ==
    IF IsNone(cur) THEN {Outcome(cur, s, dcs, "OK", None, None)}
    ELSE {Outcome(cur, s, dcs, "OK", cur, Some(StatusInfo(Get(cur))))}

\* mutant: status records itself as the phase and saves, as the phase handlers do
HandleStatusStampingPhase(cur, s, dcs, input, t, fault) ==
    IF IsNone(cur) THEN {Outcome(cur, s, dcs, "NO_CURRENT_PROJECT", None, None)}
    ELSE SaveAndEmit([Get(cur) EXCEPT !.phase = "status", !.updatedAt = t],
                     s, dcs, t, fault, "", FALSE)

HandleStatus(cur, s, dcs, input, t, fault) ==
    IF IsNone(cur) THEN {Outcome(cur, s, dcs, "NO_CURRENT_PROJECT", None, None)}
    ELSE {Outcome(cur, s, dcs, "OK", cur, Some(StatusInfo(Get(cur))))}

\* mutant: the id is pushed without looking for it first
MarkCompletedAlways(p, taskId) == Some(Append(CompletedOf(p), taskId))

\* completedTasks after handleTaskComplete has recorded the id
MarkCompleted(p, taskId) ==
    IF Includes(CompletedOf(p), taskId)
    THEN Some(CompletedOf(p))
    ELSE Some(Append(CompletedOf(p), taskId))

HandleTaskComplete(cur, s, dcs, input, t, fault) ==
    IF IsNone(cur) THEN {Outcome(cur, s, dcs, "NO_CURRENT_PROJECT", None, None)}
    ELSE LET p == Get(cur)
             taskId == IF IsSome(input.taskId) THEN Get(input.taskId) ELSE <<>>
             sanitizedTaskId == SanitizeText(taskId, MaxTaskIdLength)
         IN  IF Len(ValidateTaskId(taskId)) > 0
             THEN {Outcome(cur, s, dcs, "VALIDATION_ERROR", None, None)}
             ELSE IF IsSome(p.tasks)
                     /\ ~\E i \in 1..Len(Get(p.tasks)) : Get(p.tasks)[i].id = sanitizedTaskId
             THEN {Outcome(cur, s, dcs, "TASK_NOT_FOUND", None, None)}
             ELSE SaveAndEmit([p EXCEPT !.completedTasks = MarkCompleted(p, sanitizedTaskId),
                                        !.phase = "task_complete",
                                        !.updatedAt = t],
                              s, dcs, t, fault, "", FALSE)

\* mutant: force is not consulted
UncompletedTasksIgnoringForce(p, force) ==
    IF IsSome(p.tasks) /\ Len(Get(p.tasks)) > 0 THEN PendingTasks(p) ELSE <<>>

\* the tasks handleFinish refuses to finish over: none when force is set
UncompletedTasks(p, force) ==
    IF ~TruthyBool(force) /\ IsSome(p.tasks) /\ Len(Get(p.tasks)) > 0
    THEN PendingTasks(p)
    ELSE <<>>

\* mutant: the phase is assigned before the tasks are checked
HandleFinishStampingFirst(cur, s, dcs, input, t, fault) ==
    IF IsNone(cur) THEN {Outcome(cur, s, dcs, "NO_CURRENT_PROJECT", None, None)}
    ELSE LET p == [Get(cur) EXCEPT !.phase = "finish", !.updatedAt = t]
             uncompleted == UncompletedTasks(p, input.force)
         IN  IF Len(uncompleted) > 0
             THEN {Outcome(Some(p), s, dcs, "INCOMPLETE_TASKS", None, Some(uncompleted))}
             ELSE SaveAndEmit(p, s, dcs, t, fault, "done", TRUE)

HandleFinish(cur, s, dcs, input, t, fault) ==
    IF IsNone(cur) THEN {Outcome(cur, s, dcs, "NO_CURRENT_PROJECT", None, None)}
    ELSE LET p == Get(cur)
             uncompleted == UncompletedTasks(p, input.force)
         IN  IF Len(uncompleted) > 0
             THEN {Outcome(cur, s, dcs, "INCOMPLETE_TASKS", None, Some(uncompleted))}
             ELSE SaveAndEmit([p EXCEPT !.phase = "finish", !.updatedAt = t],
                              s, dcs, t, fault, "done", TRUE)

HandleDevelopmentFlow(cur, s, dcs, input, t, fault) ==
    CASE input.action = "init" -> HandleInit(cur, s, dcs, input, t, fault)
      [] input.action = "requirement" -> HandleRequirement(cur, s, dcs, input, t, fault)
      [] input.action = "confirmation" -> HandleConfirmation(cur, s, dcs, input, t, fault)
      [] input.action = "design" -> HandleDesign(cur, s, dcs, input, t, fault)
      [] input.action = "todo" -> HandleTodo(cur, s, dcs, input, t, fault)
      [] input.action = "task_complete" -> HandleTaskComplete(cur, s, dcs, input, t, fault)
      [] input.action = "status" -> HandleStatus(cur, s, dcs, input, t, fault)
      [] input.action = "finish" -> HandleFinish(cur, s, dcs, input, t, fault)
      [] OTHER -> {Outcome(cur, s, dcs, "INVALID_ACTION", None, None)}

-----------------------------------------------------------------------------
(* Inputs of the tool calls *)

TaskA == [id |-> <<"t", "1">>, title |-> <<"T">>]
TaskB == [id |-> <<"t", "2">>, title |-> <<"U">>]

ProjectNames ==
    {None, Some(<<>>), Some(<<" ", "P", "1">>), Some(<<"P", "!">>),
     Some(Rep("a", MaxProjectNameLength + 1))}
Descriptions == {None, Some(<<"D">>)}
RequirementArrays == {None, Some(<< <<"a", "&">> >>), Some(<< <<"a">>, <<" ">> >>)}
FunctionalArrays == {None, Some(<< <<"f">> >>)}
Confirmations == {None, Some(TRUE), Some(FALSE)}
Designs == {<<None, None>>, <<Some(<<"X">>), None>>, <<Some(<<>>), Some(<<"I">>)>>}
TaskLists == {None, Some(<<>>), Some(<<TaskA>>), Some(<<TaskA, TaskB>>), Some(<<TaskA, TaskA>>)}
TaskIds == {None, Some(<<"t", "1">>), Some(<<"t", "2">>), Some(<<"t", " ">>)}
Forces == {None, Some(TRUE), Some(FALSE)}

InitInputs == {[NoInput EXCEPT !.action = "init", !.projectName = n] : n \in ProjectNames}
RequirementInputs ==
    {[NoInput EXCEPT !.action = "requirement", !.description = d, !.requirements = r,
                     !.functionalRequirements = f] :
        d \in Descriptions, r \in RequirementArrays, f \in FunctionalArrays}
ConfirmationInputs ==
    {[NoInput EXCEPT !.action = "confirmation", !.confirmed = c] : c \in Confirmations}
DesignInputs ==
    {[NoInput EXCEPT !.action = "design", !.architecture = d[1], !.implementation = d[2]] :
        d \in Designs}
TodoInputs == {[NoInput EXCEPT !.action = "todo", !.tasks = ts] : ts \in TaskLists}
TaskCompleteInputs ==
    {[NoInput EXCEPT !.action = "task_complete", !.taskId = id] : id \in TaskIds}
StatusInputs == {[NoInput EXCEPT !.action = "status"]}
FinishInputs == {[NoInput EXCEPT !.action = "finish", !.force = f] : f \in Forces}

\* what the filesystem may do to a call: nothing, fail the write of the project
\* file, fail the write of projects.json, fail the backup, fail the document
Faults == IF config.faulty THEN {"none", "write", "index", "backup", "doc"} ELSE {"none"}

-----------------------------------------------------------------------------
(* The step-by-step tool server, src/src/index.ts.  flow.state is the field *)
(* `state` of that server, flow.dirs the documents of the directories       *)
(* .dev/<projectId>, flow.minute the wall-clock minute a project id is made *)
(* from, and flow.trail the calls that have succeeded since the last init.  *)
(* userConfirmations only ever maps a phase to true: it is the set of its   *)
(* keys.  A task is task_00<i> for its position i in the list.              *)

NoFlow == [state |-> None, dirs |-> <<>>, minute |-> 0, trail |-> <<>>]

FlowResult(f, code) == [f |-> f, code |-> code]

\* fs.writeFile(path.join(devPath, name), ...)
WriteDoc(f, name) ==
    LET id == Get(f.state).projectId
    IN  [f EXCEPT !.dirs = (id :> ((IF id \in DOMAIN @ THEN @[id] ELSE {}) \cup {name})) @@ @]

SetPhase(f, phase) == [f EXCEPT !.state = Some([Get(@) EXCEPT !.currentPhase = phase])]

Trailed(f, op, phase) == [f EXCEPT !.trail = Append(@, [op |-> op, phase |-> phase])]

\* the id is the date and the minute: an init in the same minute gets the same
\* directory, with whatever it holds
InitDevFlow(f, input) ==
    FlowResult([f EXCEPT !.state = Some([currentPhase |-> "init", projectId |-> f.minute,
                                         userConfirmations |-> {}, tasks |-> <<>>]),
                         !.dirs = IF f.minute \in DOMAIN @ THEN @ ELSE (f.minute :> {}) @@ @,
                         !.trail = <<>>],
               "OK")

GenerateRequirement(f, input) ==
    IF IsNone(f.state) THEN FlowResult(f, "TOOL_ERROR")
    ELSE FlowResult(Trailed(SetPhase(WriteDoc(f, "requirement.md"), "requirement"),
                            "generate_requirement", ""),
                    "OK")

WaitUserConfirmation(f, input) ==
    IF IsNone(f.state) THEN FlowResult(f, "TOOL_ERROR")
    ELSE IF IsNone(input.confirmed) THEN FlowResult(f, "USER_CONFIRMATION_REQUIRED")
    ELSE IF Get(input.confirmed)
    THEN FlowResult(Trailed([f EXCEPT !.state =
                                Some([Get(@) EXCEPT !.userConfirmations = @ \cup {input.phase}])],
                            "wait_user_confirmation", input.phase),
                    "OK")
    ELSE FlowResult(f, "OK")

IsConfirmed(f, phase) == IsSome(f.state) /\ phase \in Get(f.state).userConfirmations

GenerateDesign(f, input) ==
    IF ~IsConfirmed(f, "requirement") THEN FlowResult(f, "TOOL_ERROR")
    ELSE FlowResult(Trailed(SetPhase(WriteDoc(f, "design.md"), "design"),
                            "generate_design", ""),
                    "OK")

\* generateTaskList: the tasks are numbered by position and start pending
GenerateTaskList(input) == [i \in 1..input.tasks |-> [id |-> i, status |-> "pending"]]

GenerateTodo(f, input) ==
    IF ~IsConfirmed(f, "design") THEN FlowResult(f, "TOOL_ERROR")
    ELSE LET f1 == [f EXCEPT !.state = Some([Get(@) EXCEPT !.tasks = GenerateTaskList(input)])]
         IN  FlowResult(Trailed(SetPhase(WriteDoc(f1, "todo.md"), "todo"),
                                "generate_todo", ""),
                        "OK")

MarkTaskComplete(f, input) ==
    IF IsNone(f.state) THEN FlowResult(f, "TOOL_ERROR")
    ELSE IF input.taskId \notin 1..Len(Get(f.state).tasks) THEN FlowResult(f, "TOOL_ERROR")
    ELSE LET tasks == [Get(f.state).tasks EXCEPT ![input.taskId].status = "completed"]
             f1 == [f EXCEPT !.state = Some([Get(@) EXCEPT !.tasks = tasks])]
             allComplete == \A i \in 1..Len(tasks) : tasks[i].status = "completed"
         IN  FlowResult(Trailed(IF allComplete THEN SetPhase(f1, "execution") ELSE f1,
                                "mark_task_complete", ""),
                        "OK")

GenerateCompletion(f, input) ==
    IF \/ IsNone(f.state)
       \/ \E i \in 1..Len(Get(f.state).tasks) : Get(f.state).tasks[i].status # "completed"
    THEN FlowResult(f, "TOOL_ERROR")
    ELSE FlowResult(Trailed(SetPhase(WriteDoc(f, "done.md"), "complete"),
                            "generate_completion", ""),
                    "OK")

-----------------------------------------------------------------------------
(* State machine *)

SetStore(s) ==
    /\ files' = s.files
    /\ projectsIndex' = s.projectsIndex
    /\ indexFile' = s.indexFile
    /\ backups' = s.backups
    /\ backupDir' = s.backupDir
    /\ initialized' = s.initialized
    /\ initRead' = s.initRead

Started ==
    [op |-> "start", input |-> NoInput, code |-> "", before |-> None, rec |-> None,
     data |-> None, fault |-> "none", seq |-> 0]

InitCommon ==
    /\ currentProject = None
    /\ projectsIndex = {}
    /\ initialized = FALSE
    /\ initRead = None
    /\ files = <<>>
    /\ indexFile = None
    /\ backups = {}
    /\ backupDir = FALSE
    /\ flow = NoFlow
    /\ docs = {}
    /\ now = 0
    /\ last = Started

Init ==
    /\ InitCommon
    /\ config = [autoBackup |-> TRUE, faulty |-> FALSE]

InitFault ==
    /\ InitCommon
    /\ config = [autoBackup |-> TRUE, faulty |-> TRUE]

\* one tool call, from the request handler to the result or the formatted error;
\* a call arrives at least a millisecond after the one before it
Call(input) ==
    /\ now < MaxCalls
    /\ \E fault \in Faults :
        \E out \in HandleDevelopmentFlow(currentProject, Store, docs, input, now, fault) :
            /\ currentProject' = out.cur
            /\ SetStore(out.s)
            /\ docs' = out.docs
            /\ last' = [op |-> input.action, input |-> input, code |-> out.code,
                        before |-> currentProject, rec |-> out.rec, data |-> out.data,
                        fault |-> fault, seq |-> last.seq + 1]
            /\ now' = now + 1
            /\ UNCHANGED <<config, flow>>

CallInit ==
    /\ Cardinality(DOMAIN files) < MaxProjects
    /\ \E input \in InitInputs : Call(input)
CallRequirement == \E input \in RequirementInputs : Call(input)
CallConfirmation == \E input \in ConfirmationInputs : Call(input)
CallDesign == \E input \in DesignInputs : Call(input)
CallTodo == \E input \in TodoInputs : Call(input)
CallTaskComplete == \E input \in TaskCompleteInputs : Call(input)
CallStatus == \E input \in StatusInputs : Call(input)
CallFinish == \E input \in FinishInputs : Call(input)

\* the startup load the constructor begins: read projects.json, then assign
StartupRead ==
    /\ ~initialized /\ IsNone(initRead)
    /\ SetStore(InitializeRead(Store))
    /\ UNCHANGED <<currentProject, docs, now, config, last, flow>>

StartupDone ==
    /\ ~initialized /\ IsSome(initRead)
    /\ SetStore(InitializeDone(Store))
    /\ UNCHANGED <<currentProject, docs, now, config, last, flow>>

Next ==
    \/ CallInit
    \/ CallRequirement
    \/ CallConfirmation
    \/ CallDesign
    \/ CallTodo
    \/ CallTaskComplete
    \/ CallStatus
    \/ CallFinish
    \/ StartupRead
    \/ StartupDone

Spec == Init /\ [][Next]_vars

SpecFault == InitFault /\ [][Next]_vars

-----------------------------------------------------------------------------
(* The StateManager used directly.  The ids are "p" and "p_x"; a record is *)
(* saved either as the caller last stamped it at time 0 or stamped now.    *)

StoreIds == {<<"p">>, <<"p", "x">>}

StaleRecord(id) ==
    [NewProjectState(id, <<"N">>, 0) EXCEPT !.tasks = Some(<<>>)]

FreshRecord(id, t) ==
    [NewProjectState(id, <<"N">>, 0) EXCEPT !.phase = "todo", !.tasks = Some(<<TaskA>>),
                                            !.updatedAt = t]

StoreRecords(t) == {StaleRecord(id) : id \in StoreIds} \cup
                   {FreshRecord(id, t) : id \in StoreIds}

StoreStep(op, input, code, before, rec, data) ==
    /\ last' = [op |-> op, input |-> input, code |-> code, before |-> before,
                rec |-> rec, data |-> data, fault |-> "none", seq |-> last.seq + 1]
    /\ UNCHANGED <<currentProject, docs, config, flow>>

\* saveProjectState(project) at time now; data keeps the time of the save
SaveStep(project) ==
    \E sv \in SaveProjectState(Store, project, now, "none") :
        /\ SetStore(sv.s)
        /\ StoreStep("save", project, IF sv.ok THEN "OK" ELSE "SAVE_STATE_ERROR",
                     None, None, Some(now))

StoreSave ==
    /\ last.seq < MaxStoreCalls
    /\ \E project \in StoreRecords(now) : SaveStep(project)
    /\ UNCHANGED now

\* loadProjectState(projectId); before keeps the record a save has just stored
\* under this id
StoreLoad ==
    /\ last.seq < MaxStoreCalls
    /\ \E projectId \in StoreIds :
        LET r == LoadProjectState(Store, projectId)
            saved == last.op = "save" /\ last.code = "OK" /\ last.input.id = projectId
        IN  /\ SetStore(r.s)
            /\ StoreStep("load", projectId, "OK",
                         IF saved THEN Some(last.input) ELSE None, r.res,
                         IF saved THEN last.data ELSE None)
    /\ UNCHANGED now

StoreGetAll ==
    /\ last.seq < MaxStoreCalls
    /\ LET r == GetAllProjects(Store)
       IN  /\ SetStore(r.s)
           /\ StoreStep("getAll", None, "OK", None, None, Some(r.res))
    /\ UNCHANGED now

\* projectExists(projectId); code keeps what it returned
StoreExists ==
    /\ last.seq < MaxStoreCalls
    /\ \E projectId \in StoreIds :
        LET r == ProjectExists(Store, projectId)
        IN  /\ SetStore(r.s)
            /\ StoreStep("exists", projectId, IF r.res THEN "true" ELSE "false",
                         None, None, None)
    /\ UNCHANGED now

StoreCleanup ==
    /\ last.seq < MaxStoreCalls
    /\ SetStore(Cleanup(Store))
    /\ StoreStep("cleanup", None, "OK", None, None, None)
    /\ UNCHANGED now

\* a project file is deleted by something other than the manager
RemoveFile ==
    /\ last.seq < MaxStoreCalls
    /\ \E id \in DOMAIN files :
        /\ files' = Unlink(files, id)
        /\ StoreStep("remove", id, "", None, None, None)
    /\ UNCHANGED <<projectsIndex, initialized, initRead, indexFile, backups, backupDir, now>>

\* a project file is overwritten with text that is not JSON
DamageFile ==
    /\ last.seq < MaxStoreCalls
    /\ \E id \in DOMAIN files :
        /\ files[id] # Corrupt
        /\ files' = WriteFile(files, id, Corrupt)
        /\ StoreStep("damage", id, "", None, None, None)
    /\ UNCHANGED <<projectsIndex, initialized, initRead, indexFile, backups, backupDir, now>>

\* the process ends and a new StateManager is constructed over the same directory
Restart ==
    /\ last.seq < MaxStoreCalls
    /\ initialized
    /\ projectsIndex' = {}
    /\ initialized' = FALSE
    /\ initRead' = None
    /\ StoreStep("restart", None, "", None, None, None)
    /\ UNCHANGED <<files, indexFile, backups, backupDir, now>>

\* the store holds a record for the id: its file is on disk and projects.json lists it
RecordExists(fs, idx, id) == id \in DOMAIN fs /\ IsSome(idx) /\ id \in Get(idx)

\* deleteProjectState(projectId); before keeps the content of the file, data whether
\* the store held the record when the call began and what the call returned
DeleteStep(projectId) ==
    \E d \in DeleteProjectState(Store, projectId, now, "none") :
        /\ SetStore(d.s)
        /\ StoreStep("delete", projectId, d.code,
                     IF projectId \in DOMAIN files THEN Some(files[projectId]) ELSE None,
                     None,
                     Some([existed |-> RecordExists(files, indexFile, projectId),
                           returned |-> d.res]))

StoreDelete ==
    /\ last.seq < MaxStoreCalls
    /\ \E projectId \in StoreIds : DeleteStep(projectId)
    /\ UNCHANGED now

\* restoreProjectState(projectId, backupTimestamp?); before keeps the content of the
\* record the store held when the call began, rec what the call returned
RestoreInputs ==
    {[id |-> id, timestamp |-> ts] :
        id \in StoreIds, ts \in {None} \cup {Some(k) : k \in 0..MaxStoreClock}}

RestoreStep(input) ==
    \E r \in RestoreProjectState(Store, input.id, input.timestamp, now, "none") :
        /\ SetStore(r.s)
        /\ StoreStep("restore", input, r.code,
                     IF RecordExists(files, indexFile, input.id)
                     THEN Some(files[input.id]) ELSE None,
                     r.res, None)

StoreRestore ==
    /\ last.seq < MaxStoreCalls
    /\ \E input \in RestoreInputs : RestoreStep(input)
    /\ UNCHANGED now

\* what a new process finds: the directory as it is, nothing in memory
Fresh(s) == [s EXCEPT !.projectsIndex = {}, !.initialized = FALSE, !.initRead = None]

\* the process dies inside saveProjectState, after the backup or after the write of
\* the project file, and a new StateManager is constructed over the directory
SaveCrash ==
    /\ last.seq < MaxStoreCalls
    /\ \E project \in StoreRecords(now), point \in {"write", "index"} :
        \E sv \in SaveProjectState(Store, project, now, point) :
            /\ SetStore(Fresh(sv.s))
            /\ StoreStep("crash", project.id, "", None, None, None)
    /\ UNCHANGED now

\* the process dies inside deleteProjectState, after the unlink
DeleteCrash ==
    /\ last.seq < MaxStoreCalls
    /\ \E projectId \in projectsIndex \cap DOMAIN files :
        \E d \in DeleteProjectState(Store, projectId, now, "index") :
            /\ SetStore(Fresh(d.s))
            /\ StoreStep("crash", projectId, "", None, None, None)
    /\ UNCHANGED now

StoreTick ==
    /\ now < MaxStoreClock
    /\ now' = now + 1
    /\ UNCHANGED <<currentProject, projectsIndex, initialized, initRead, files,
                   indexFile, backups, backupDir, docs, config, last, flow>>

NextStore ==
    \/ StoreSave
    \/ StoreLoad
    \/ StoreGetAll
    \/ StoreDelete
    \/ StoreRestore
    \/ StoreExists
    \/ StoreCleanup
    \/ SaveCrash
    \/ DeleteCrash
    \/ RemoveFile
    \/ DamageFile
    \/ Restart
    \/ StoreTick
    \/ StartupRead
    \/ StartupDone

SpecStore == Init /\ [][NextStore]_vars

\* a record is saved, deleted and restored: the calls of a recovery, a few more of
\* them in a row than SpecStore follows
RecoverSave ==
    /\ last.seq < MaxRecoverCalls
    /\ \E id \in StoreIds : SaveStep(FreshRecord(id, now))
    /\ UNCHANGED now

RecoverDelete ==
    /\ last.seq < MaxRecoverCalls
    /\ \E projectId \in StoreIds : DeleteStep(projectId)
    /\ UNCHANGED now

RecoverRestore ==
    /\ last.seq < MaxRecoverCalls
    /\ \E id \in StoreIds : RestoreStep([id |-> id, timestamp |-> None])
    /\ UNCHANGED now

NextRecover ==
    \/ RecoverSave
    \/ RecoverDelete
    \/ RecoverRestore
    \/ StoreTick
    \/ StartupRead
    \/ StartupDone

SpecRecover == Init /\ [][NextRecover]_vars

\* saves of the two ids, each at least a millisecond after the one before
RetentionSave ==
    /\ now < MaxBackupSaves
    /\ \E id \in StoreIds : SaveStep(FreshRecord(id, now))
    /\ now' = now + 1

NextBackup ==
    \/ RetentionSave
    \/ StartupRead
    \/ StartupDone

SpecBackup == Init /\ [][NextBackup]_vars

\* createBackup and cleanupOldBackups may fail; the store is full: the id p has been
\* saved BackupRetention + 1 times and holds BackupRetention backups
BackupFaults == {"none", "backup", "cleanup"}

FullBackups ==
    {[id |-> <<"p">>, ts |-> k, mtime |-> k,
      content |-> JsonFile(FreshRecord(<<"p">>, k - 1))] : k \in 1..BackupRetention}

InitBackupFault ==
    /\ currentProject = None
    /\ projectsIndex = {<<"p">>}
    /\ initialized = TRUE
    /\ initRead = None
    /\ files = (<<"p">> :> JsonFile(FreshRecord(<<"p">>, BackupRetention)))
    /\ indexFile = Some({<<"p">>})
    /\ backups = FullBackups
    /\ backupDir = TRUE
    /\ flow = NoFlow
    /\ docs = {}
    /\ now = BackupRetention + 1
    /\ last = Started
    /\ config = [autoBackup |-> TRUE, faulty |-> FALSE]

FaultySave ==
    /\ now < BackupRetention + 1 + MaxFaultySaves
    /\ \E project \in StoreRecords(now), fault \in BackupFaults :
        \E sv \in SaveProjectState(Store, project, now, fault) :
            /\ SetStore(sv.s)
            /\ last' = [op |-> "save", input |-> project,
                        code |-> IF sv.ok THEN "OK" ELSE "SAVE_STATE_ERROR",
                        before |-> None, rec |-> None, data |-> Some(now),
                        fault |-> fault, seq |-> last.seq + 1]
    /\ now' = now + 1
    /\ UNCHANGED <<currentProject, docs, config, flow>>

NextBackupFault == FaultySave

SpecBackupFault == InitBackupFault /\ [][NextBackupFault]_vars

-----------------------------------------------------------------------------
(* status over the task lists and completed ids an active project can hold: *)
(* todo stores the list it is given, ids repeated or not, and task_complete *)
(* appends an id that is not yet there, also before any list exists        *)

TaskC == [id |-> <<"t", "3">>, title |-> <<"V">>]

SeqsUpTo(S, n) == UNION {[1..k -> S] : k \in 0..n}

StatusTaskLists == {None} \cup {Some(ts) : ts \in SeqsUpTo({TaskA, TaskB, TaskC}, MaxStatusTasks)}

StatusCompleted ==
    {None} \cup
    {Some(c) : c \in {x \in SeqsUpTo({TaskA.id, TaskB.id, TaskC.id, <<"t", "9">>}, 2) :
                         \A i, j \in 1..Len(x) : x[i] = x[j] => i = j}}

StatusProjects ==
    {[NewProjectState(<<"proj", "0", "a">>, <<"P", "1">>, 0) EXCEPT
          !.phase = IF IsSome(c) THEN "task_complete"
                    ELSE IF IsSome(ts) THEN "todo" ELSE "init",
          !.tasks = ts, !.completedTasks = c] :
        ts \in StatusTaskLists, c \in StatusCompleted}

InitStatus ==
    /\ \E p \in StatusProjects :
        /\ currentProject = Some(p)
        /\ files = (p.id :> JsonFile(p))
        /\ projectsIndex = {p.id}
        /\ indexFile = Some({p.id})
    /\ initialized = TRUE
    /\ initRead = None
    /\ backups = {}
    /\ backupDir = FALSE
    /\ flow = NoFlow
    /\ docs = {}
    /\ now = 1
    /\ last = Started
    /\ config = [autoBackup |-> TRUE, faulty |-> FALSE]

NextStatus == CallStatus

SpecStatus == InitStatus /\ [][NextStatus]_vars

-----------------------------------------------------------------------------
(* the tool calls of the step-by-step server; arguments that only reach the *)
(* text of a document are left out                                          *)

FlowPhases == {"requirement", "design", "todo"}

NoArguments == [arguments |-> None]

FlowConfirmationInputs ==
    {[phase |-> ph, confirmed |-> c] : ph \in FlowPhases, c \in {None, Some(TRUE), Some(FALSE)}}

FlowTodoInputs == {[tasks |-> n] : n \in 0..MaxFlowTasks}

FlowMarkInputs == {[taskId |-> i] : i \in 1..(MaxFlowTasks + 1)}

\* the CallTool handler: the result of the tool, or TOOL_ERROR for what it throws
FlowCall(tool, input, r) ==
    /\ last.seq < MaxFlowCalls
    /\ flow' = r.f
    /\ last' = [op |-> tool, input |-> input, code |-> r.code, before |-> None,
                rec |-> None, data |-> None, fault |-> "none", seq |-> last.seq + 1]
    /\ UNCHANGED <<currentProject, projectsIndex, initialized, initRead, files,
                   indexFile, backups, backupDir, docs, now, config>>

CallInitDevFlow == FlowCall("init_dev_flow", NoArguments, InitDevFlow(flow, NoArguments))

CallGenerateRequirement ==
    FlowCall("generate_requirement", NoArguments, GenerateRequirement(flow, NoArguments))

CallWaitUserConfirmation ==
    \E input \in FlowConfirmationInputs :
        FlowCall("wait_user_confirmation", input, WaitUserConfirmation(flow, input))

CallGenerateDesign == FlowCall("generate_design", NoArguments, GenerateDesign(flow, NoArguments))

CallGenerateTodo ==
    \E input \in FlowTodoInputs : FlowCall("generate_todo", input, GenerateTodo(flow, input))

CallMarkTaskComplete ==
    \E input \in FlowMarkInputs :
        FlowCall("mark_task_complete", input, MarkTaskComplete(flow, input))

CallGenerateCompletion ==
    FlowCall("generate_completion", NoArguments, GenerateCompletion(flow, NoArguments))

\* the minute of the wall clock changes
FlowTick ==
    /\ flow.minute < MaxFlowMinute
    /\ flow' = [flow EXCEPT !.minute = @ + 1]
    /\ UNCHANGED <<currentProject, projectsIndex, initialized, initRead, files,
                   indexFile, backups, backupDir, docs, now, config, last>>

NextFlow ==
    \/ CallInitDevFlow
    \/ CallGenerateRequirement
    \/ CallWaitUserConfirmation
    \/ CallGenerateDesign
    \/ CallGenerateTodo
    \/ CallMarkTaskComplete
    \/ CallGenerateCompletion
    \/ FlowTick

SpecFlow == Init /\ [][NextFlow]_vars

-----------------------------------------------------------------------------
(* Properties of the phase calls *)

PhaseRank(ph) == CHOOSE i \in 1..Len(Phases) : Phases[i] = ph

\* this step is a tool call with the given action
IsCall(action) == last'.seq = last.seq + 1 /\ last'.op = action

StoredPhase(fs, id) == fs[id].doc.phase

\* C1: the phase stored for a project only ever moves forward in the order init,
\* requirement, confirmation, design, todo, task_complete, finish.
PhaseOnlyAdvances ==
    [][\A id \in DOMAIN files \cap DOMAIN files' :
          PhaseRank(StoredPhase(files', id)) >= PhaseRank(StoredPhase(files, id))]_vars

HasIncompleteTask(p) ==
    \E i \in 1..Len(TasksOf(p)) : ~Includes(CompletedOf(p), TasksOf(p)[i].id)

\* C2: with an active project, finish without force fails exactly when some task's id
\* is not in completedTasks, and finish with force=true succeeds whatever the tasks.
FinishFailsIffIncomplete ==
    (last.op = "finish" /\ IsSome(last.before)) =>
        IF TruthyBool(last.input.force)
        THEN last.code = "OK"
        ELSE /\ last.code \in {"OK", "INCOMPLETE_TASKS"}
             /\ last.code = "INCOMPLETE_TASKS" <=> HasIncompleteTask(Get(last.before))

ForcedFinishOverIncompleteTask ==
    /\ last.op = "finish" /\ IsSome(last.before)
    /\ TruthyBool(last.input.force)
    /\ HasIncompleteTask(Get(last.before))
    /\ last.code = "OK"

NeedsProject ==
    {"requirement", "confirmation", "design", "todo", "task_complete", "status", "finish"}

\* C3: while no project is active, every call of requirement, confirmation, design,
\* todo, task_complete, status and finish fails with NO_CURRENT_PROJECT and changes
\* neither the session nor the store.
NoActiveProjectRejected ==
    [][(IsNone(currentProject) /\ \E a \in NeedsProject : IsCall(a)) =>
          /\ last'.code = "NO_CURRENT_PROJECT"
          /\ UNCHANGED <<currentProject, projectsIndex, initialized, initRead, files,
                         indexFile, backups, docs>>]_vars

StatusRejectedAfterFinish ==
    /\ last.op = "status" /\ last.code = "NO_CURRENT_PROJECT"
    /\ \E id \in DOMAIN files : StoredPhase(files, id) = "finish"

\* C4: task_complete called a second time with the id it has just completed leaves
\* completedTasks as the first call left it.
TaskCompleteIdempotent ==
    [][(/\ last.op = "task_complete" /\ last.code = "OK"
        /\ IsCall("task_complete")
        /\ last'.input.taskId = last.input.taskId) =>
          /\ last'.code = "OK"
          /\ IsSome(currentProject')
          /\ Get(currentProject').completedTasks = Get(currentProject).completedTasks]_vars

TaskCompletedTwice ==
    /\ last.op = "task_complete" /\ last.code = "OK"
    /\ IsSome(last.before)
    /\ Get(last.before).phase = "task_complete"
    /\ Includes(CompletedOf(Get(last.before)), Get(last.input.taskId))

SavingCalls == {"confirmation", "design", "todo", "task_complete", "finish"}

\* C5: when a requirement call fails validation, none of the fields it supplied
\* reaches the persisted record, also not through the next call that saves.
FailedRequirementNeverPersisted ==
    [][(/\ last.op = "requirement" /\ last.code = "VALIDATION_ERROR"
        /\ \E a \in SavingCalls : IsCall(a)
        /\ last'.code = "OK") =>
          LET before == Get(last.before)
              stored == Get(ReadJsonFile(files', before.id))
          IN  /\ stored.description = before.description
              /\ stored.requirements = before.requirements
              /\ stored.functionalRequirements = before.functionalRequirements]_vars

IsMutatingCall(l) ==
    /\ l.op \in {"init", "requirement", "confirmation", "design", "todo",
                 "task_complete", "finish"}
    /\ l.op = "confirmation" => TruthyBool(l.input.confirmed)

\* C6: when a mutating handler returns success the record is already persisted:
\* loading its id from the store yields the record the result reports.
SuccessIsPersisted ==
    (IsMutatingCall(last) /\ last.code = "OK") =>
        LoadProjectState(Store, Get(last.rec).id).res = last.rec

FinishedAndPersisted ==
    /\ last.op = "finish" /\ last.code = "OK"
    /\ IsNone(currentProject)
    /\ LoadProjectState(Store, Get(last.rec).id).res = last.rec

\* C7: when a mutating handler fails because persistence fails, a following status
\* call reports the phase, tasks and completedTasks of before the failed call.
FailedSaveNotObserved ==
    [][(/\ last.code = "SAVE_STATE_ERROR" /\ IsSome(last.before)
        /\ IsCall("status")) =>
          /\ last'.code = "OK"
          /\ Get(last'.data) = StatusInfo(Get(last.before))]_vars

-----------------------------------------------------------------------------
(* Properties of the store *)

\* a load that directly follows a successful save of the same id
LoadAfterSave == last.op = "load" /\ IsSome(last.before)

\* C8, as stated: save followed by load of the same id returns a record
\* equal to the one saved in every field except updatedAt, and updatedAt has been
\* refreshed to the time of the save.
SaveRefreshesUpdatedAt ==
    LoadAfterSave =>
        /\ IsSome(last.rec)
        /\ \A f \in (RequiredFields \cup OptionalFields) \ {"updatedAt"} :
              Get(last.rec)[f] = Get(last.before)[f]
        /\ Get(last.rec).updatedAt = Get(last.data)

\* C8, amended: save followed by load of the same id returns a record equal to the
\* one saved in every field, updatedAt included: save stores updatedAt as it is given.
SaveLoadRoundTrip ==
    LoadAfterSave => last.rec = last.before

StaleRecordRoundTrip ==
    /\ LoadAfterSave
    /\ Get(last.before).updatedAt < Get(last.data)
    /\ IsSome(last.rec)
    /\ Get(last.rec).updatedAt = Get(last.before).updatedAt
    /\ Get(last.rec).tasks = Some(<<>>)

BackupNames(bs, id) == {b.ts : b \in {x \in bs : x.id = id}}

\* C9: with auto-backup enabled, however many times an id is saved, at most 10
\* backups exist for it and they are its most recently created ones: a backup is
\* removed only when 10 later backups of the same id remain.
RetentionKeepsTenMostRecent ==
    [][\A id \in StoreIds :
          /\ Cardinality(BackupNames(backups', id)) <= BackupRetention
          /\ \A t \in BackupNames(backups, id) \ BackupNames(backups', id) :
                Cardinality({u \in BackupNames(backups', id) : u > t}) >= BackupRetention
      ]_vars

Readable(id) == IsSome(ReadJsonFile(files, id))

\* C10: getAllProjects returns no record whose file is missing or unreadable, and
\* once it has run neither the index in memory nor projects.json holds an entry
\* for such an id.
ListAllDropsUnreadable ==
    last.op = "getAll" =>
        /\ \A i \in 1..Len(Get(last.data)) : Readable(Get(last.data)[i].id)
        /\ \A id \in projectsIndex : Readable(id)
        /\ IsSome(indexFile)
        /\ \A id \in Get(indexFile) : Readable(id)

\* C11: a record whose save has completed survives a restart: whenever its file is
\* intact on disk, load of its id returns the content of that file, also from a new
\* StateManager constructed over the same directory.
SavedRecordSurvivesRestart ==
    (last.op = "load" /\ Readable(last.input)) =>
        last.rec = ReadJsonFile(files, last.input)

\* C12: between operations, once the startup load is done (also after a crash inside
\* save or delete and a restart), the index holds the id of every readable project
\* file on disk; what it may hold besides are entries whose file is gone or unreadable.
IndexCoversProjectFiles ==
    initialized => \A id \in DOMAIN files : Readable(id) => id \in projectsIndex

-----------------------------------------------------------------------------
(* Properties of the single handlers *)

StoreUnchanged ==
    UNCHANGED <<projectsIndex, initialized, initRead, files, indexFile, backups,
                backupDir, docs>>

\* C13: with an active project, confirmation with confirmed=false succeeds and reports
\* the record's current phase, and confirmation with confirmed absent fails with
\* MISSING_CONFIRMATION; both leave the active record and the store as they were.
\* confirmed=true sets phase=confirmation and persists it.
ConfirmationFrame ==
    [][(IsSome(currentProject) /\ IsCall("confirmation")) =>
          IF IsNone(last'.input.confirmed)
          THEN /\ last'.code = "MISSING_CONFIRMATION"
               /\ UNCHANGED currentProject /\ StoreUnchanged
          ELSE IF ~Get(last'.input.confirmed)
          THEN /\ last'.code = "OK"
               /\ Get(last'.rec).phase = Get(currentProject).phase
               /\ UNCHANGED currentProject /\ StoreUnchanged
          ELSE /\ last'.code = "OK"
               /\ Get(currentProject').phase = "confirmation"
               /\ StoredPhase(files', Get(currentProject').id) = "confirmation"]_vars

ConfirmationDeclinedInDesign ==
    /\ last.op = "confirmation" /\ last.input.confirmed = Some(FALSE)
    /\ last.code = "OK"
    /\ IsSome(last.before) /\ Get(last.before).phase = "design"
    /\ currentProject = last.before
    /\ StoredPhase(files, Get(currentProject).id) = "design"

\* C14: status is a pure read: it changes no field of the active record, writes
\* nothing to the store and creates no backup, and the phase "status" is never the
\* phase of the active or of a stored record; status calls inserted in a sequence
\* of calls therefore leave the session and the store as they would have been.
StatusIsPureRead ==
    [][IsCall("status") =>
          /\ UNCHANGED currentProject /\ StoreUnchanged
          /\ IsSome(currentProject') => Get(currentProject').phase # "status"
          /\ \A id \in DOMAIN files' : StoredPhase(files', id) # "status"]_vars

StatusReadInTodoPhase ==
    /\ last.op = "status" /\ last.code = "OK"
    /\ currentProject = last.before
    /\ Get(currentProject).phase = "todo"
    /\ StoredPhase(files, Get(currentProject).id) = "todo"
    /\ backups # {}

IdsOf(seq) == {seq[i] : i \in 1..Len(seq)}

\* C15: status reports totalTasks = the number of tasks, completedTasksCount = the
\* number of tasks whose id is in completedTasks, pendingTasksCount = the difference,
\* and completionRate = completedTasksCount / totalTasks * 100 rounded to the nearest
\* integer, 0 when there is no task.
StatusCountsTasks ==
    (last.op = "status" /\ last.code = "OK") =>
        LET p == Get(last.before)
            d == Get(last.data)
            tasks == IF IsSome(p.tasks) THEN Get(p.tasks) ELSE <<>>
            doneIds == IF IsSome(p.completedTasks) THEN IdsOf(Get(p.completedTasks)) ELSE {}
            total == Len(tasks)
            done == Cardinality({i \in 1..total : tasks[i].id \in doneIds})
        IN  /\ d.totalTasks = total
            /\ d.completedTasksCount = done
            /\ d.pendingTasksCount = total - done
            /\ total = 0 => d.completionRate = 0
            /\ total > 0 => /\ 2 * total * d.completionRate <= 200 * done + total
                            /\ 200 * done + total < 2 * total * (d.completionRate + 1)

StatusRoundsUpWithForeignId ==
    /\ last.op = "status" /\ last.code = "OK"
    /\ Get(last.data).totalTasks = 3
    /\ Get(last.data).completedTasksCount = 2
    /\ Get(last.data).completionRate = 67
    /\ Includes(CompletedOf(Get(last.before)), <<"t", "9">>)

\* C16: when finish without force fails for incomplete tasks, the error lists the id
\* and title of exactly the tasks whose id is not in completedTasks, the active
\* project stays loaded as it was and nothing is written to the store.
IncompleteTasksErrorListsPending ==
    [][(IsCall("finish") /\ last'.code = "INCOMPLETE_TASKS") =>
          LET p == Get(currentProject)
              doneIds == IF IsSome(p.completedTasks)
                         THEN IdsOf(Get(p.completedTasks)) ELSE {}
          IN  /\ ~TruthyBool(last'.input.force)
              /\ Get(last'.data) = SelectSeq(Get(p.tasks), LAMBDA task : task.id \notin doneIds)
              /\ Len(Get(last'.data)) > 0
              /\ UNCHANGED currentProject /\ StoreUnchanged]_vars

FinishRefusedListingOneTask ==
    /\ last.op = "finish" /\ last.code = "INCOMPLETE_TASKS"
    /\ Get(last.data) = <<TaskB>>
    /\ Len(TasksOf(Get(last.before))) = 2
    /\ currentProject = last.before
    /\ Get(currentProject).phase = "task_complete"

\* C17: finish sets phase=finish, persists, emits the completion document and then
\* clears the active project: the active project becomes none only in a finish call
\* that succeeds, with the record stored in phase finish and the document emitted; a
\* finish whose save or document fails keeps the project active, and no other call
\* ever clears it.
FinishClearsLast ==
    [][/\ (IsSome(currentProject) /\ IsNone(currentProject')) =>
              (IsCall("finish") /\ last'.code = "OK")
       /\ (IsSome(currentProject) /\ IsCall("finish")) =>
              LET id == Get(currentProject).id
              IN  CASE last'.code = "OK" ->
                         /\ IsNone(currentProject')
                         /\ id \in projectsIndex'
                         /\ ReadJsonFile(files', id) = last'.rec
                         /\ Get(last'.rec).phase = "finish"
                         /\ <<id, "done">> \in docs'
                    [] last'.code = "EXECUTION_ERROR" ->
                         /\ IsSome(currentProject')
                         /\ StoredPhase(files', id) = "finish"
                         /\ docs' = docs
                    [] OTHER ->
                         /\ IsSome(currentProject')
                         /\ docs' = docs]_vars

FinishSucceedsOnRetry ==
    /\ last.op = "finish" /\ last.code = "OK"
    /\ Get(last.before).phase = "finish"
    /\ IsNone(currentProject)
    /\ <<Get(last.before).id, "done">> \in docs

\* C18: with a task list in the active record, task_complete with a well-formed taskId
\* that is the id of no task fails with TASK_NOT_FOUND and leaves the active record
\* and the store unchanged; and every id a task_complete call adds to completedTasks
\* is the id of a task in the list at that time.
CompletedTasksAreListedTasks ==
    [][(IsSome(currentProject) /\ IsCall("task_complete")) =>
          LET p == Get(currentProject)
              taskId == IF IsSome(last'.input.taskId) THEN Get(last'.input.taskId) ELSE <<>>
              listed == {TasksOf(p)[i].id : i \in 1..Len(TasksOf(p))}
          IN  /\ (IsSome(p.tasks) /\ Len(ValidateTaskId(taskId)) = 0 /\ taskId \notin listed) =>
                    /\ last'.code = "TASK_NOT_FOUND"
                    /\ UNCHANGED currentProject /\ StoreUnchanged
              /\ last'.code = "OK" =>
                    \A id \in IdsOf(CompletedOf(Get(currentProject'))) \ IdsOf(CompletedOf(p)) :
                        id \in listed]_vars

\* C19: a successful init creates a record with an id no file, index entry or backup
\* has yet and phase=init, stores it as exactly one new project file with an index
\* entry in memory and on disk, and makes it the active record, whether or not a
\* record was active; the files of the other records, that of the previously active
\* one included, stay as they were.
InitAddsOneRecord ==
    [][(IsCall("init") /\ last'.code = "OK") =>
          LET new == Get(currentProject')
          IN  /\ new.id \notin UsedIds(Store)
              /\ new.phase = "init"
              /\ last'.rec = currentProject'
              /\ DOMAIN files' = DOMAIN files \cup {new.id}
              /\ \A id \in DOMAIN files : files'[id] = files[id]
              /\ ReadJsonFile(files', new.id) = currentProject'
              /\ projectsIndex' = DOMAIN files'
              /\ indexFile' = Some(projectsIndex')
              /\ backups' = backups]_vars

InitWhileInDesign ==
    /\ last.op = "init" /\ last.code = "OK"
    /\ IsSome(last.before) /\ Get(last.before).phase = "design"
    /\ Get(currentProject).id # Get(last.before).id
    /\ StoredPhase(files, Get(last.before).id) = "design"
    /\ StoredPhase(files, Get(currentProject).id) = "init"

NameChars == Lower \cup Upper \cup Digit \cup Whitespace \cup {"-", "_"}

\* a projectName that is missing, empty, longer than the bound once its surrounding
\* whitespace is removed, or holds a character outside the allowed set
BadProjectName(o) ==
    \/ IsNone(o)
    \/ Len(Trim(Get(o))) = 0
    \/ Len(Trim(Get(o))) > MaxProjectNameLength
    \/ \E i \in 1..Len(Get(o)) : Get(o)[i] \notin NameChars

-----------------------------------------------------------------------------
(* Properties of load, delete, backup and restore *)

\* C21, as stated: load returns not-found when the id is absent from the index or its
\* file is missing or corrupt, and after a load that found the file missing or
\* corrupt the id is in neither the index in memory nor projects.json.
LoadRepairsIndex ==
    last.op = "load" =>
        /\ last.rec = (IF last.input \in projectsIndex /\ Readable(last.input)
                       THEN ReadJsonFile(files, last.input) ELSE None)
        /\ (IsNone(last.rec) /\ ~Readable(last.input)) =>
              /\ last.input \notin projectsIndex
              /\ IsSome(indexFile) => last.input \notin Get(indexFile)

\* C21, amended: load returns not-found when the id is absent from the index or its
\* file is missing or corrupt, and it writes nothing: the project files, projects.json
\* and the backups stay as they are and, once the startup load is done, so does the
\* index in memory, a stale entry included.
LoadLeavesIndex ==
    [][IsCall("load") =>
          /\ last'.rec = (IF last'.input \in projectsIndex' /\ last'.input \in DOMAIN files
                             /\ files[last'.input].ok
                          THEN ReadJsonFile(files, last'.input) ELSE None)
          /\ files' = files /\ indexFile' = indexFile /\ backups' = backups
          /\ initialized'
          /\ initialized => projectsIndex' = projectsIndex]_vars

StaleEntryKeptByLoad ==
    /\ last.op = "load" /\ IsNone(last.rec)
    /\ last.input \in projectsIndex
    /\ indexFile = Some(projectsIndex)
    /\ last.input \notin DOMAIN files

\* C22: delete returns true exactly when a record for the id existed and false
\* otherwise; after it has returned true the project file and the index entry are
\* gone, and with auto-backup a backup holds the content that was deleted.
DeleteReportsExistence ==
    last.op = "delete" =>
        /\ last.code = "OK"
        /\ Get(last.data).returned = Get(last.data).existed
        /\ Get(last.data).returned =>
              /\ last.input \notin DOMAIN files
              /\ last.input \notin projectsIndex
              /\ last.input \notin Get(indexFile)
              /\ config.autoBackup =>
                    \E b \in backups : b.id = last.input /\ b.content = Get(last.before)

\* C23: with auto-backup every save that overwrites an existing record first writes a
\* backup holding the content that was on disk, and a backup file is never modified
\* after it is written: a later backup never overwrites an earlier one.
BackupsAreImmutableSnapshots ==
    [][/\ (/\ IsCall("save")
           /\ last'.code = "OK"
           /\ config.autoBackup
           /\ RecordExists(files, indexFile, last'.input.id))
          => \E b \in backups' :
                b.id = last'.input.id /\ b.content = files[last'.input.id]
       /\ \A b \in backups :
             (\E c \in backups' : c.id = b.id /\ c.ts = b.ts) => b \in backups']_vars

\* C24: a failure while creating a backup or while cleaning up old backups never
\* makes the enclosing save fail: the record file and the index are written and the
\* save returns normally.
BackupFailureNeverFailsSave ==
    (last.op = "save" /\ last.fault \in {"backup", "cleanup"}) =>
        /\ last.code = "OK"
        /\ last.input.id \in DOMAIN files
        /\ files[last.input.id] = JsonFile(last.input)
        /\ last.input.id \in projectsIndex
        /\ indexFile = Some(projectsIndex)

\* a save over a full set of backups whose cleanup failed: one backup too many stays
SaveOverFailedCleanup ==
    /\ last.op = "save"
    /\ last.fault = "cleanup"
    /\ last.code = "OK"
    /\ Cardinality({b \in backups : b.id = last.input.id}) > BackupRetention

\* the backups of exactly this id, and the one a restore without timestamp should take
BackupsOf(bs, id) == {b \in bs : b.id = id}
LatestBackupOf(bs, id) == {b \in BackupsOf(bs, id) : \A c \in BackupsOf(bs, id) : c.ts <= b.ts}

\* C25: restore is a save, not a swap: with auto-backup restore(id) writes the content
\* of the chosen backup as the current record, the record that was current before is
\* kept as a backup, and a second restore(id) without timestamp brings that
\* pre-restore record back.
RestoreIsUndoableSave ==
    [][(IsCall("restore") /\ last'.code = "OK" /\ IsSome(last'.rec)) =>
          LET id == last'.input.id
              chosen == IF IsSome(last'.input.timestamp)
                        THEN {b \in BackupsOf(backups, id) :
                                 b.ts = Get(last'.input.timestamp)}
                        ELSE LatestBackupOf(backups, id)
          IN  /\ \E b \in chosen :
                    b.content.ok /\ last'.rec = Some(JsonParse(b.content.doc))
              /\ ReadJsonFile(files', id) = last'.rec
              /\ RecordExists(files, indexFile, id) =>
                    \E b \in backups' : b.id = id /\ b.content = files[id]
              /\ (/\ last.op = "restore" /\ last.code = "OK" /\ IsSome(last.rec)
                  /\ last.input.id = id
                  /\ IsSome(last.before) /\ Get(last.before).ok
                  /\ IsNone(last'.input.timestamp))
                 => last'.rec = Some(JsonParse(Get(last.before).doc))]_vars

\* the backup files restore(input) selects: the one named, or the last name among
\* those beginning with the id and "_"
SelectedBackups(bs, input) ==
    LET mine == {b \in bs : MatchesBackupFilter(input.id, b)}
    IN  IF IsSome(input.timestamp)
        THEN {b \in bs : b.id = input.id /\ b.ts = Get(input.timestamp)}
        ELSE {b \in mine : \A c \in mine : c = b \/ BackupNameLess(c, b)}

NoDuplicates(arr) == \A i, j \in 1..Len(arr) : i # j => arr[i] # arr[j]

\* the records there are: the active one and those the project files hold
RecordsHeld ==
    (IF IsSome(currentProject) THEN {Get(currentProject)} ELSE {}) \cup
    {Get(ReadJsonFile(files, id)) : id \in {x \in DOMAIN files : files[x].ok}}

\* C28: in every reachable state completedTasks of a record holds no id twice,
\* whatever todo and task_complete calls were made.
CompletedTasksHaveNoDuplicate ==
    \A p \in RecordsHeld : NoDuplicates(CompletedOf(p))

\* a task that was already completed is completed again while two ids are recorded
RepeatedCompletionAmongTwo ==
    /\ last.op = "task_complete" /\ last.code = "OK"
    /\ IsSome(last.before) /\ IsSome(currentProject)
    /\ Includes(CompletedOf(Get(last.before)),
                SanitizeText(Get(last.input.taskId), MaxTaskIdLength))
    /\ Len(CompletedOf(Get(currentProject))) = 2
    /\ ReadJsonFile(files, Get(currentProject).id) = currentProject

\* C29: in every reachable state the ids of the tasks in a record's task list are
\* pairwise distinct, whatever tasks argument todo has accepted.
TaskIdsAreDistinct ==
    \A p \in RecordsHeld :
        NoDuplicates([i \in 1..Len(TasksOf(p)) |-> TasksOf(p)[i].id])

\* since the last init the phase was confirmed with confirmed=true
ConfirmedIn(trail, phase) ==
    \E j \in 1..Len(trail) : trail[j].op = "wait_user_confirmation" /\ trail[j].phase = phase

\* since the last init the document was generated and the phase was confirmed after it
GeneratedThenConfirmed(trail, tool, phase) ==
    \E i, j \in 1..Len(trail) :
        /\ i < j
        /\ trail[i].op = tool
        /\ trail[j].op = "wait_user_confirmation" /\ trail[j].phase = phase

\* C30: in the step-by-step server generate_design succeeds only after the
\* requirement phase was confirmed with confirmed=true and generate_todo only after
\* the design phase was; so design.md is never written before requirement.md was
\* generated and confirmed, and todo.md never before design.md was generated and
\* confirmed.
DocumentsFollowConfirmedDocuments ==
    [][/\ (IsCall("generate_design") /\ last'.code = "OK") =>
             /\ ConfirmedIn(flow.trail, "requirement")
             /\ GeneratedThenConfirmed(flow.trail, "generate_requirement", "requirement")
       /\ (IsCall("generate_todo") /\ last'.code = "OK") =>
             /\ ConfirmedIn(flow.trail, "design")
             /\ GeneratedThenConfirmed(flow.trail, "generate_design", "design")]_vars

\* C31: in the step-by-step server a task is marked complete by mark_task_complete
\* only after the task list (the todo phase) was confirmed with confirmed=true.
MarkFollowsTodoConfirmation ==
    [][(IsCall("mark_task_complete") /\ last'.code = "OK") =>
          ConfirmedIn(flow.trail, "todo")]_vars

\* C32: in the step-by-step server generate_completion writes done.md and sets the
\* phase to complete only when a task list was generated and every task in it is
\* completed; otherwise it fails and the phase is unchanged.
CompletionNeedsFinishedTaskList ==
    [][IsCall("generate_completion") =>
          LET listDone ==
                  /\ IsSome(flow.state)
                  /\ \E i \in 1..Len(flow.trail) : flow.trail[i].op = "generate_todo"
                  /\ \A i \in 1..Len(Get(flow.state).tasks) :
                        Get(flow.state).tasks[i].status = "completed"
          IN  IF listDone
              THEN /\ last'.code = "OK"
                   /\ "done.md" \in flow'.dirs[Get(flow.state).projectId]
                   /\ Get(flow'.state).currentPhase = "complete"
              ELSE /\ last'.code = "TOOL_ERROR"
                   /\ flow'.state = flow.state
                   /\ flow'.dirs = flow.dirs]_vars

\* C33: todo with a tasks argument replaces the task list of the record by the
\* argument and leaves completedTasks unchanged; todo without a tasks argument leaves
\* both unchanged; in both cases phase becomes todo and the record is persisted.
TodoReplacesTaskList ==
    [][(IsCall("todo") /\ IsSome(currentProject)) =>
          LET p == Get(currentProject)
              q == Get(currentProject')
          IN  /\ last'.code = "OK"
              /\ IsSome(currentProject')
              /\ q.tasks = IF IsSome(last'.input.tasks) THEN last'.input.tasks ELSE p.tasks
              /\ q.completedTasks = p.completedTasks
              /\ q.phase = "todo"
              /\ ReadJsonFile(files', q.id) = currentProject']_vars

\* a todo call has put a shorter list in the place of the one there was, after a
\* task was completed
ShorterListReplacedLonger ==
    /\ last.op = "todo" /\ last.code = "OK"
    /\ IsSome(last.before) /\ IsSome(last.input.tasks)
    /\ Len(TasksOf(Get(last.before))) > Len(Get(last.input.tasks))
    /\ Len(Get(last.input.tasks)) > 0
    /\ Len(CompletedOf(Get(currentProject))) > 0

\* C34: a successful task_complete sets phase=task_complete, persists the record and
\* then has the document generator write the todo document anew, so that the
\* document there is reflects the completion.
TaskCompleteRefreshesTodoDocument ==
    [][(/\ IsCall("task_complete") /\ last'.code = "OK"
        /\ IsSome(currentProject)
        /\ <<Get(currentProject).id, "todo">> \in docs) =>
          LET q == Get(currentProject')
          IN  /\ IsSome(currentProject')
              /\ q.phase = "task_complete"
              /\ ReadJsonFile(files', q.id) = currentProject'
              /\ <<q.id, "todo", q.updatedAt>> \in docs']_vars

\* the ids projects.json lists
Indexed(idx) == IF IsSome(idx) THEN Get(idx) ELSE {}

\* C35: exists(id) and cleanup() remove from the index exactly the entries whose file
\* is unreachable and persist the repaired index, never an entry whose file is
\* reachable; exists(id) returns true exactly when the id is indexed and its file is
\* reachable.
ExistsAndCleanupRepairIndex ==
    [][/\ IsCall("exists") =>
             LET id == last'.input
                 indexed == id \in Indexed(indexFile)
                 reachable == id \in DOMAIN files
             IN  /\ last'.code = IF indexed /\ reachable THEN "true" ELSE "false"
                 /\ Indexed(indexFile') =
                        Indexed(indexFile) \ (IF reachable THEN {} ELSE {id})
                 /\ initialized' => projectsIndex' = Indexed(indexFile')
       /\ IsCall("cleanup") =>
             /\ Indexed(indexFile') = Indexed(indexFile) \cap DOMAIN files
             /\ initialized' => projectsIndex' = Indexed(indexFile')]_vars

\* C36: status guidance and finish agree.  For every active record, a status call on
\* the state recommends finishing exactly when a finish call without force on that
\* same state succeeds, and recommends completing the remaining tasks exactly when
\* that finish fails with INCOMPLETE_TASKS.
StatusGuidanceAgreesWithFinish ==
    IsSome(currentProject) =>
        \A force \in {None, Some(FALSE)} :
            \A st \in HandleDevelopmentFlow(currentProject, Store, docs,
                                            [NoInput EXCEPT !.action = "status"], now, "none") :
                \A fin \in HandleDevelopmentFlow(currentProject, Store, docs,
                                                 [NoInput EXCEPT !.action = "finish",
                                                                 !.force = force], now, "none") :
                    /\ st.code = "OK"
                    /\ Get(st.data).nextSteps \in {"finish", "task_complete"}
                    /\ Get(st.data).nextSteps = "finish" <=> fin.code = "OK"
                    /\ Get(st.data).nextSteps = "task_complete" <=> fin.code = "INCOMPLETE_TASKS"
                    /\ last.op = "status" /\ last.code = "OK" =>
                           Get(last.data).nextSteps = Get(st.data).nextSteps

StatusAdvisedFinishOverRepeatedTask ==
    /\ last.op = "status" /\ last.code = "OK"
    /\ Get(last.data).nextSteps = "finish"
    /\ IsSome(currentProject)
    /\ Len(TasksOf(Get(currentProject))) = 2
    /\ Len(CompletedOf(Get(currentProject))) = 1

\* the id a store call was made for
CalledId(l) ==
    CASE l.op = "save" -> l.input.id
      [] l.op = "restore" -> l.input.id
      [] OTHER -> l.input

\* C37: backups are isolated per project id.  A save, delete or restore made for one
\* id, with the backup, retention and cleanup it triggers, never deletes a backup of
\* a different id, and restore(id) never returns content taken from a backup of a
\* different id; the ids p and p_x are among the pairs.
BackupsIsolatedPerId ==
    [][/\ \A op \in {"save", "delete", "restore"} :
            IsCall(op) =>
                \A b \in backups : b.id # CalledId(last') => b \in backups'
       /\ (IsCall("restore") /\ IsSome(last'.rec)) =>
            /\ Get(last'.rec).id = last'.input.id
            /\ \E b \in backups :
                  /\ b.id = last'.input.id
                  /\ b.content.ok
                  /\ last'.rec = Some(JsonParse(b.content.doc))]_vars

StoreOperations == {"save", "load", "delete", "exists", "getAll", "restore", "cleanup"}

\* C38: no store operation acts on the index before the startup load of projects.json
\* has completed.  Every operation, also one invoked right after construction, runs
\* with the load done, and none overwrites projects.json with fewer entries than it
\* held for records that are still readable on disk.
OperationsAwaitStartupLoad ==
    [][\A op \in StoreOperations :
          IsCall(op) =>
              /\ initialized'
              /\ \A id \in Indexed(indexFile) :
                    IsSome(ReadJsonFile(files', id)) => id \in Indexed(indexFile')]_vars

\* C39: with auto-backup enabled, delete(id) followed by restore(id) without
\* timestamp brings the project back: afterwards the id is in the index and load(id)
\* returns the record as it was persisted immediately before the delete.
DeleteThenRestoreRecovers ==
    [][(/\ IsCall("restore")
        /\ IsNone(last'.input.timestamp)
        /\ last.op = "delete" /\ last.code = "OK" /\ Get(last.data).returned
        /\ last.input = last'.input.id
        /\ IsSome(last.before) /\ Get(last.before).ok)
       => LET id == last'.input.id
              persisted == Some(JsonParse(Get(last.before).doc))
          IN  /\ last'.code = "OK"
              /\ last'.rec = persisted
              /\ id \in projectsIndex'
              /\ id \in Indexed(indexFile')
              /\ LoadProjectState(Store', id).res = persisted]_vars

====
